---------------------------- MODULE Spec2Model ----------------------------
(***************************************************************************)
(* A model of aioconveyor.py: the two conveyor classes AioConveyor         *)
(* (lock-step scheduler) and AioGenConveyor (producer -> queue ->          *)
(* consumer), the caller thread that runs start() and stop(), and the      *)
(* engine threads start() creates, each running its own asyncio loop.      *)
(*                                                                         *)
(* Time is the wall clock time() in whole ticks.  Every await of the       *)
(* source is a point where an action ends; actions of different tasks and  *)
(* threads interleave freely and the clock may advance between any two.    *)
(***************************************************************************)
EXTENDS Integers, Sequences, FiniteSets, TLC

\* ------------------------------------------------------------- bounds ----
MaxStarts == 2          \* start() calls of a caller that restarts the engine
MaxStops == 2           \* stop() calls of a caller that stops the engine again
MaxTime == 5            \* the wall clock runs from 0 to MaxTime
RestartTime == 3        \* ... and to RestartTime when the caller restarts
BaseInterval == 2       \* the positive loop_interval engines are built with
MaxEvents == 3          \* events one event source emits at most
NumConsumers == 2       \* len(self.consumers) at most
ArgInterval == 3        \* direct loop_time calls: loop_interval in 0..ArgInterval
ArgOffset == 4          \* ... loop_offset in -ArgOffset..ArgOffset
ArgSpan == 7            \* ... t_now in -ArgSpan..ArgSpan

\* ------------------------------------------------- program constants ----
WatchdogSleep == 2      \* asyncio.sleep(1.5) of the watchdog, in ticks
SkewSleep == 1          \* asyncio.sleep(0.2) of a skipped event, in ticks

Threads == 1..MaxStarts
Consumers == 1..NumConsumers
\* __init__ accepts any loop_interval and loop_offset.  Engines are built
\* with a zero or a positive interval, and with an offset that is negative,
\* inside 0..interval-1, or beyond the interval.
Intervals == {0, BaseInterval}
Offsets == {0 - 1, 0, 1, BaseInterval + 1}
Variants == {"AioConveyor", "AioGenConveyor"}

NoEvent == [event_time |-> 0 - 1, loop_counter |-> 0 - 1]

\* Event(event_time, loop_counter), the dataclass.
Event(t, n) == [event_time |-> t, loop_counter |-> n]

\* ----------------------------------------------------------- loop_time ---
\* Mutant: loop_time without its `if t0 <= t_now: t0 += loop_interval`.
loop_time_wrong(interval, off, t_now) ==
    (t_now \div interval) * interval + off

\* t0 = (t_now // loop_interval) * loop_interval + loop_offset;
\* if t0 <= t_now: t0 += loop_interval.  Python's // is floor division, as
\* is \div.  loop_interval = 0 raises ZeroDivisionError: see loop_time_raises.
loop_time(interval, off, t_now) ==
    LET t0 == (t_now \div interval) * interval + off
    IN  IF t0 <= t_now THEN t0 + interval ELSE t0

loop_time_raises(interval) == interval = 0

\* ------------------------------------------------------------- state -----
VARIABLES
    variant,        \* which class was instantiated
    loop_interval,  \* self.loop_interval
    loop_offset,    \* self.loop_offset
    consumers,      \* self.consumers, as the set of their indices
    running,        \* self.running
    stopped,        \* self.stopped
    now,            \* time()
    caller,         \* the caller thread: "idle", or "start" inside start()
    start_calls,    \* start() calls the caller makes in all
    stop_calls,     \* stop() calls the caller makes in all
    end_time,       \* the last tick of the wall clock
    nstarted,       \* threads created so far; thread ids are 1..nstarted
    launcher,       \* per thread: "none", "created", "gather", "done"
    task,           \* per thread: where the scheduler / producer task is:
                    \*   "none", "loop_time", "delta", "skip_sleep",
                    \*   "event_sleep", "produce", "gather", or "<x>_raised"
                    \*   once an exception of x has left the task
    t_event,        \* per thread: t_event of the event source
    wake,           \* per thread: when the task's asyncio.sleep ends
    loop_counter,   \* per thread: loop_counter of the event source
    event,          \* per thread: the Event of the current iteration
    cons_tasks,     \* per thread: state of each task of cons_tasks
    fan,            \* per thread: the (event, payload) handed to cons_tasks
    consumer,       \* per thread: where consumer_loop is (AioGenConveyor)
    queue,          \* per thread: the asyncio.Queue of launcher
    watchdog,       \* per thread: "none", "sleep", "raised"
    wd_wake,        \* per thread: when the watchdog's asyncio.sleep ends
    gather_exc,     \* per thread: the exception gather handed the launcher
    emitted,        \* history: events handed to produce, in order
    skipped,        \* history: loop events skipped since the last emitted one
    enqueued,       \* history: items put on the queue, in order
    dequeued,       \* history: items got from the queue, in order
    log,            \* history: what launcher's log.error reported
    nstopped,       \* history: stop() calls made so far
    uncaught,       \* history: per thread, the exception that left run_loop
    calls,          \* history: per thread and consumer, the (event, payload)
                    \*   of each invocation of the consumer, in order
    round_end,      \* history: per thread, time() when the scheduler last
                    \*   resumed from gather(*cons_tasks) with all results
    lt_in,          \* arguments of a direct loop_time call
    lt_out          \* its result

cfgVars  == <<variant, loop_interval, loop_offset, consumers, start_calls,
             stop_calls, end_time>>
srcVars  == <<task, t_event, wake, loop_counter, event>>
fanVars  == <<cons_tasks, fan>>
qVars    == <<consumer, queue>>
wdVars   == <<watchdog, wd_wake>>
histVars == <<emitted, skipped, enqueued, dequeued, log>>
obsVars  == <<nstopped, uncaught, calls, round_end>>
ltVars   == <<lt_in, lt_out>>
vars == <<cfgVars, running, stopped, now, caller, nstarted, launcher,
          srcVars, fanVars, qVars, wdVars, gather_exc, histVars, obsVars,
          ltVars>>

NoArgs == [interval |-> 0, offset |-> 0, t_now |-> 0]
NoResult == [status |-> "none", value |-> 0]

\* __init__: the fields as the constructor leaves them, no thread yet.
EngineInit ==
    /\ running = FALSE
    /\ stopped = FALSE
    /\ now = 0
    /\ caller = "idle"
    /\ nstarted = 0
    /\ launcher = [t \in Threads |-> "none"]
    /\ task = [t \in Threads |-> "none"]
    /\ t_event = [t \in Threads |-> 0]
    /\ wake = [t \in Threads |-> 0]
    /\ loop_counter = [t \in Threads |-> 0]
    /\ event = [t \in Threads |-> NoEvent]
    /\ cons_tasks = [t \in Threads |-> [c \in Consumers |-> "none"]]
    /\ fan = [t \in Threads |-> <<>>]
    /\ consumer = [t \in Threads |-> "none"]
    /\ queue = [t \in Threads |-> <<>>]
    /\ watchdog = [t \in Threads |-> "none"]
    /\ wd_wake = [t \in Threads |-> 0]
    /\ gather_exc = [t \in Threads |-> "none"]
    /\ emitted = [t \in Threads |-> <<>>]
    /\ skipped = [t \in Threads |-> 0]
    /\ enqueued = [t \in Threads |-> <<>>]
    /\ dequeued = [t \in Threads |-> <<>>]
    /\ log = [t \in Threads |-> "none"]
    /\ nstopped = 0
    /\ uncaught = [t \in Threads |-> "none"]
    /\ calls = [t \in Threads |-> [c \in Consumers |-> <<>>]]
    /\ round_end = [t \in Threads |-> 0]

\* An engine of either class, any configuration, whose caller calls start()
\* once and stop() at most once.
Init ==
    /\ variant \in Variants
    /\ loop_interval \in Intervals
    /\ loop_offset \in Offsets
    /\ consumers = Consumers
    /\ start_calls = 1
    /\ stop_calls = 1
    /\ end_time = MaxTime
    /\ EngineInit
    /\ lt_in = NoArgs
    /\ lt_out = NoResult

\* An engine of either class, with the default single consumer, whose
\* caller calls start() again and again.
InitRestart ==
    /\ variant \in Variants
    /\ loop_interval = BaseInterval
    /\ loop_offset = 1
    /\ consumers = {1}
    /\ start_calls = MaxStarts
    /\ stop_calls = 1
    /\ end_time = RestartTime
    /\ EngineInit
    /\ lt_in = NoArgs
    /\ lt_out = NoResult
\* An engine of either class whose caller calls stop() again and again.
InitStop ==
    /\ variant \in Variants
    /\ loop_interval = BaseInterval
    /\ loop_offset = 1
    /\ consumers = Consumers
    /\ start_calls = 1
    /\ stop_calls = MaxStops
    /\ end_time = MaxTime
    /\ EngineInit
    /\ lt_in = NoArgs
    /\ lt_out = NoResult

\* ------------------------------------------------------ caller thread ----
\* start(), first half: new_event_loop(), Thread(target=run_loop).start().
\* The source has no guard on a second call; the caller makes start_calls.
StartThread ==
    /\ caller = "idle"
    /\ nstarted < start_calls
    /\ nstarted' = nstarted + 1
    /\ launcher' = [launcher EXCEPT ![nstarted + 1] = "created"]
    /\ caller' = "start"
    /\ UNCHANGED <<cfgVars, running, stopped, now, srcVars, fanVars, qVars,
                   wdVars, gather_exc, histVars, obsVars, ltVars>>

\* start(), second half: self.running = True, after the thread was started.
StartReturn ==
    /\ caller = "start"
    /\ running' = TRUE
    /\ caller' = "idle"
    /\ UNCHANGED <<cfgVars, stopped, now, nstarted, launcher, srcVars,
                   fanVars, qVars, wdVars, gather_exc, histVars, obsVars,
                   ltVars>>

\* Mutant: a stop() that flips the flag.
stop_flag_toggled(flag) == ~flag

\* The value stop() writes to self.stopped, whatever the flag was.
stop_flag(flag) == TRUE

\* stop(): self.stopped = True.  The caller makes stop_calls calls.
Stop ==
    /\ caller = "idle"
    /\ nstopped < stop_calls
    /\ stopped' = stop_flag(stopped)
    /\ nstopped' = nstopped + 1
    /\ UNCHANGED <<cfgVars, running, now, caller, nstarted, launcher,
                   srcVars, fanVars, qVars, wdVars, gather_exc, histVars,
                   uncaught, calls, round_end, ltVars>>

\* The wall clock advances.
Tick ==
    /\ now < end_time
    /\ now' = now + 1
    /\ UNCHANGED <<cfgVars, running, stopped, caller, nstarted, launcher,
                   srcVars, fanVars, qVars, wdVars, gather_exc, histVars,
                   obsVars, ltVars>>

\* ------------------------------------------------------ engine thread ----
\* Mutant: a loop that keeps running tasks after launcher() has returned.
LoopRuns_after_return(t) == launcher[t] \in {"gather", "done"}

\* The thread's asyncio loop runs tasks while run_until_complete(launcher())
\* has not returned.
LoopRuns(t) == launcher[t] = "gather"

\* asyncio.gather without return_exceptions: the first exception of a child
\* is the one the awaiting coroutine receives; later ones are dropped.
first_exception(old, exc) == IF old = "none" THEN exc ELSE old

\* run_loop -> launcher: create the tasks, then await gather(...).
\* AioConveyor: scheduler and watchdog; AioGenConveyor: producer, consumer
\* and watchdog around a fresh asyncio.Queue().
Launch(t) ==
    /\ launcher[t] = "created"
    /\ launcher' = [launcher EXCEPT ![t] = "gather"]
    /\ task' = [task EXCEPT ![t] = "loop_time"]
    /\ loop_counter' = [loop_counter EXCEPT ![t] = 0]
    /\ watchdog' = [watchdog EXCEPT ![t] = "sleep"]
    /\ wd_wake' = [wd_wake EXCEPT ![t] = now + WatchdogSleep]
    /\ consumer' = [consumer EXCEPT
                      ![t] = IF variant = "AioGenConveyor" THEN "get" ELSE "none"]
    /\ queue' = [queue EXCEPT ![t] = <<>>]
    /\ UNCHANGED <<cfgVars, running, stopped, now, caller, nstarted, t_event,
                   wake, event, fanVars, gather_exc, histVars, obsVars,
                   ltVars>>

\* `except Exception as ex` of launcher: AioConveyor.launcher re-raises
\* what it caught (line 140), AioGenConveyor.launcher has no raise.
launcher_reraises(v) == v = "AioConveyor"

\* launcher's except/finally once gather raised: log.error(ex), then
\* self.running = False; run_until_complete returns and the loop stops.
\* A re-raised exception is no CancelledError, so run_loop does not catch it
\* and it leaves the thread.
LauncherEnd(t) ==
    /\ LoopRuns(t)
    /\ gather_exc[t] # "none"
    /\ log' = [log EXCEPT ![t] = gather_exc[t]]
    /\ running' = FALSE
    /\ launcher' = [launcher EXCEPT ![t] = "done"]
    /\ uncaught' = [uncaught EXCEPT
                      ![t] = IF launcher_reraises(variant)
                             THEN gather_exc[t] ELSE "none"]
    /\ UNCHANGED <<cfgVars, stopped, now, caller, nstarted, srcVars, fanVars,
                   qVars, wdVars, gather_exc, emitted, skipped, enqueued,
                   dequeued, nstopped, calls, round_end, ltVars>>

\* Mutant: a watchdog that ignores self.stopped.
watchdog_never_raises(flag) == FALSE

\* watchdog: `if self.stopped: raise Exception(...)`.
watchdog_raises(flag) == flag

\* watchdog wakes from asyncio.sleep(1.5): raise when stopped, else sleep
\* again.  The statements after the raise in AioConveyor.watchdog
\* (scheduler.cancel(), await scheduler) are never reached.
WatchdogWake(t) ==
    /\ LoopRuns(t)
    /\ watchdog[t] = "sleep"
    /\ now >= wd_wake[t]
    /\ IF watchdog_raises(stopped)
       THEN /\ watchdog' = [watchdog EXCEPT ![t] = "raised"]
            /\ gather_exc' = [gather_exc EXCEPT
                                ![t] = first_exception(@, "watchdog")]
            /\ UNCHANGED wd_wake
       ELSE /\ wd_wake' = [wd_wake EXCEPT ![t] = now + WatchdogSleep]
            /\ UNCHANGED <<watchdog, gather_exc>>
    /\ UNCHANGED <<cfgVars, running, stopped, now, caller, nstarted, launcher,
                   srcVars, fanVars, qVars, histVars, obsVars, ltVars>>


\* ------------------------------------------------------- event source ----
\* scheduler (AioConveyor) and event_generator (AioGenConveyor) run the same
\* loop over loop_generator; `task` is the task that runs it (the scheduler
\* task, or the producer task driving event_generator).

\* Mutant: a check that also skips an event that is due right now.
is_skew_or_now(delta) == delta <= 0

\* `if delta < 0:` with delta = t_event - time().
is_skew(delta) == delta < 0

\* Mutant: a skipped loop event that consumes a sequence number.
counter_after_skip_bumped(n) == n + 1

\* loop_counter across a skipped loop event: `continue` leaves it alone.
counter_after_skip(n) == n

\* loop_counter across an emitted event: `loop_counter += 1`.
counter_after_event(n) == n + 1

\* The payload produce returns for an event: opaque to the engine, tagged
\* here with the event so that payloads of different events differ.
payload_of(e) == [produced_for |-> e.loop_counter]

\* loop_generator: t_event = self.loop_time(loop_interval, loop_offset),
\* with t_now = time().  A zero interval raises inside the task.
LoopGenerator(t) ==
    /\ LoopRuns(t)
    /\ task[t] = "loop_time"
    /\ Len(emitted[t]) < MaxEvents
    /\ IF loop_time_raises(loop_interval)
       THEN /\ task' = [task EXCEPT ![t] = "loop_time_raised"]
            /\ gather_exc' = [gather_exc EXCEPT
                                ![t] = first_exception(@, "loop_time")]
            /\ UNCHANGED t_event
       ELSE /\ t_event' = [t_event EXCEPT
                             ![t] = loop_time(loop_interval, loop_offset, now)]
            /\ task' = [task EXCEPT ![t] = "delta"]
            /\ UNCHANGED gather_exc
    /\ UNCHANGED <<cfgVars, running, stopped, now, caller, nstarted, launcher,
                   wake, loop_counter, event, fanVars, qVars, wdVars,
                   histVars, obsVars, ltVars>>

\* delta = t_event - time(); a past t_event is skipped with sleep(0.2) and
\* `continue`, else Event(event_time, loop_counter) and sleep(delta).
CheckDelta(t) ==
    /\ LoopRuns(t)
    /\ task[t] = "delta"
    /\ LET delta == t_event[t] - now
       IN  IF is_skew(delta)
           THEN /\ task' = [task EXCEPT ![t] = "skip_sleep"]
                /\ wake' = [wake EXCEPT ![t] = now + SkewSleep]
                /\ skipped' = [skipped EXCEPT ![t] = @ + 1]
                /\ loop_counter' = [loop_counter EXCEPT
                                      ![t] = counter_after_skip(@)]
                /\ UNCHANGED event
           ELSE /\ task' = [task EXCEPT ![t] = "event_sleep"]
                /\ wake' = [wake EXCEPT ![t] = now + delta]
                /\ event' = [event EXCEPT
                               ![t] = Event(t_event[t], loop_counter[t])]
                /\ UNCHANGED <<skipped, loop_counter>>
    /\ UNCHANGED <<cfgVars, running, stopped, now, caller, nstarted, launcher,
                   t_event, fanVars, qVars, wdVars, gather_exc, emitted,
                   enqueued, dequeued, log, obsVars, ltVars>>

\* asyncio.sleep(0.2) of a skipped event ends: back to loop_generator.
SkipWake(t) ==
    /\ LoopRuns(t)
    /\ task[t] = "skip_sleep"
    /\ now >= wake[t]
    /\ task' = [task EXCEPT ![t] = "loop_time"]
    /\ UNCHANGED <<cfgVars, running, stopped, now, caller, nstarted, launcher,
                   t_event, wake, loop_counter, event, fanVars, qVars, wdVars,
                   gather_exc, histVars, obsVars, ltVars>>

\* asyncio.sleep(delta) ends: the event is emitted and produce(event=event)
\* is called (directly in scheduler, through `yield event` in
\* production_scheduler).
EventWake(t) ==
    /\ LoopRuns(t)
    /\ task[t] = "event_sleep"
    /\ now >= wake[t]
    /\ task' = [task EXCEPT ![t] = "produce"]
    /\ emitted' = [emitted EXCEPT ![t] = Append(@, event[t])]
    /\ UNCHANGED <<cfgVars, running, stopped, now, caller, nstarted, launcher,
                   t_event, wake, loop_counter, event, fanVars, qVars, wdVars,
                   gather_exc, skipped, enqueued, dequeued, log, obsVars,
                   ltVars>>

\* produce raises: the exception leaves scheduler / production_scheduler.
ProduceRaise(t) ==
    /\ LoopRuns(t)
    /\ task[t] = "produce"
    /\ task' = [task EXCEPT ![t] = "produce_raised"]
    /\ gather_exc' = [gather_exc EXCEPT ![t] = first_exception(@, "produce")]
    /\ UNCHANGED <<cfgVars, running, stopped, now, caller, nstarted, launcher,
                   t_event, wake, loop_counter, event, fanVars, qVars, wdVars,
                   histVars, obsVars, ltVars>>


\* ------------------------------------------------- fan-out and queue -----
\* cons_tasks = [create_task(c(event=event, payload=payload)) for c in
\* self.consumers]: one pending task per consumer.
spawn_consumers ==
    [c \in Consumers |-> IF c \in consumers THEN "pending" ELSE "none"]

\* Mutant: a fan-out that invokes the first consumer only.
invoke_first_only(old, item) ==
    [c \in Consumers |->
        IF c \in consumers /\ c = 1 THEN Append(old[c], item) ELSE old[c]]

\* c(event=event, payload=payload) for c in self.consumers: every consumer
\* is invoked once with the pair.
invoke_consumers(old, item) ==
    [c \in Consumers |->
        IF c \in consumers THEN Append(old[c], item) ELSE old[c]]

\* Mutant: a join that does not wait for the tasks at all.
gather_no_wait(cs) ==
    IF \E c \in consumers : cs[c] = "raised" THEN "raised" ELSE "done"

\* Mutant: a join that resumes as soon as one task has returned.
gather_any(cs) ==
    IF \E c \in consumers : cs[c] = "raised" THEN "raised"
    ELSE IF \E c \in consumers : cs[c] = "done" THEN "done"
    ELSE "pending"

\* results = await asyncio.gather(*cons_tasks): "raised" as soon as one task
\* raised, "done" once all returned, "pending" otherwise.
gather(cs) ==
    IF \E c \in consumers : cs[c] = "raised" THEN "raised"
    ELSE IF \A c \in consumers : cs[c] = "done" THEN "done"
    ELSE "pending"

\* Mutant: a queue of capacity 1 that drops what does not fit.
queue_put_bounded(q, x) == IF Len(q) >= 1 THEN q ELSE Append(q, x)

\* asyncio.Queue().put: appends at the tail, never blocks (maxsize 0).
queue_put(q, x) == Append(q, x)

\* Mutant: a get that takes the newest item.
queue_get_last(q) == [item |-> q[Len(q)], rest |-> SubSeq(q, 1, Len(q) - 1)]

\* asyncio.Queue().get: takes the head.
queue_get(q) == [item |-> Head(q), rest |-> Tail(q)]

\* produce returns its payload.  scheduler: spawn cons_tasks and await
\* gather.  production_scheduler: queue.put((event, payload)), then
\* event_generator resumes after its yield with loop_counter += 1.
ProduceReturn(t) ==
    /\ LoopRuns(t)
    /\ task[t] = "produce"
    /\ LET item == <<event[t], payload_of(event[t])>>
       IN  IF variant = "AioConveyor"
           THEN /\ fan' = [fan EXCEPT ![t] = item]
                /\ cons_tasks' = [cons_tasks EXCEPT ![t] = spawn_consumers]
                /\ calls' = [calls EXCEPT ![t] = invoke_consumers(@, item)]
                /\ task' = [task EXCEPT ![t] = "gather"]
                /\ UNCHANGED <<queue, enqueued, loop_counter, skipped>>
           ELSE /\ queue' = [queue EXCEPT ![t] = queue_put(@, item)]
                /\ enqueued' = [enqueued EXCEPT ![t] = Append(@, item)]
                /\ loop_counter' = [loop_counter EXCEPT
                                      ![t] = counter_after_event(@)]
                /\ skipped' = [skipped EXCEPT ![t] = 0]
                /\ task' = [task EXCEPT ![t] = "loop_time"]
                /\ UNCHANGED <<fan, cons_tasks, calls>>
    /\ UNCHANGED <<cfgVars, running, stopped, now, caller, nstarted, launcher,
                   t_event, wake, event, consumer, wdVars, gather_exc,
                   emitted, dequeued, log, nstopped, uncaught, round_end,
                   ltVars>>

\* A consumer task returns.
ConsumeReturn(t, c) ==
    /\ LoopRuns(t)
    /\ cons_tasks[t][c] = "pending"
    /\ cons_tasks' = [cons_tasks EXCEPT ![t][c] = "done"]
    /\ UNCHANGED <<cfgVars, running, stopped, now, caller, nstarted, launcher,
                   srcVars, fan, qVars, wdVars, gather_exc, histVars, obsVars,
                   ltVars>>

\* A consumer task raises.
ConsumeRaise(t, c) ==
    /\ LoopRuns(t)
    /\ cons_tasks[t][c] = "pending"
    /\ cons_tasks' = [cons_tasks EXCEPT ![t][c] = "raised"]
    /\ UNCHANGED <<cfgVars, running, stopped, now, caller, nstarted, launcher,
                   srcVars, fan, qVars, wdVars, gather_exc, histVars, obsVars,
                   ltVars>>

\* scheduler resumes from gather(*cons_tasks): loop_counter += 1 and the
\* next loop event, or the consumer's exception leaves the scheduler.
SchedulerGather(t) ==
    /\ LoopRuns(t)
    /\ task[t] = "gather"
    /\ gather(cons_tasks[t]) # "pending"
    /\ IF gather(cons_tasks[t]) = "raised"
       THEN /\ task' = [task EXCEPT ![t] = "consume_raised"]
            /\ gather_exc' = [gather_exc EXCEPT
                                ![t] = first_exception(@, "consume")]
            /\ UNCHANGED <<loop_counter, skipped, round_end>>
       ELSE /\ task' = [task EXCEPT ![t] = "loop_time"]
            /\ loop_counter' = [loop_counter EXCEPT
                                  ![t] = counter_after_event(@)]
            /\ skipped' = [skipped EXCEPT ![t] = 0]
            /\ round_end' = [round_end EXCEPT ![t] = now]
            /\ UNCHANGED gather_exc
    /\ UNCHANGED <<cfgVars, running, stopped, now, caller, nstarted, launcher,
                   t_event, wake, event, fanVars, qVars, wdVars, emitted,
                   enqueued, dequeued, log, nstopped, uncaught, calls,
                   ltVars>>

\* consumer_loop: event, payload = await queue.get(), then spawn cons_tasks.
ConsumerGet(t) ==
    /\ LoopRuns(t)
    /\ consumer[t] = "get"
    /\ queue[t] # <<>>
    /\ LET got == queue_get(queue[t])
       IN  /\ queue' = [queue EXCEPT ![t] = got.rest]
           /\ dequeued' = [dequeued EXCEPT ![t] = Append(@, got.item)]
           /\ fan' = [fan EXCEPT ![t] = got.item]
           /\ calls' = [calls EXCEPT ![t] = invoke_consumers(@, got.item)]
    /\ cons_tasks' = [cons_tasks EXCEPT ![t] = spawn_consumers]
    /\ consumer' = [consumer EXCEPT ![t] = "gather"]
    /\ UNCHANGED <<cfgVars, running, stopped, now, caller, nstarted, launcher,
                   srcVars, wdVars, gather_exc, emitted, skipped, enqueued,
                   log, nstopped, uncaught, round_end, ltVars>>

\* consumer_loop resumes from gather(*cons_tasks): back to queue.get(), or
\* the consumer's exception leaves consumer_loop.
ConsumerGather(t) ==
    /\ LoopRuns(t)
    /\ consumer[t] = "gather"
    /\ gather(cons_tasks[t]) # "pending"
    /\ IF gather(cons_tasks[t]) = "raised"
       THEN /\ consumer' = [consumer EXCEPT ![t] = "raised"]
            /\ gather_exc' = [gather_exc EXCEPT
                                ![t] = first_exception(@, "consume")]
       ELSE /\ consumer' = [consumer EXCEPT ![t] = "get"]
            /\ UNCHANGED gather_exc
    /\ UNCHANGED <<cfgVars, running, stopped, now, caller, nstarted, launcher,
                   srcVars, fanVars, queue, wdVars, histVars, obsVars,
                   ltVars>>

\* ------------------------------------------------ direct loop_time ------
\* loop_time called directly with an explicit t_now, on either class.
LoopTimeArgs ==
    [interval : 0..ArgInterval,
     offset : (0 - ArgOffset)..ArgOffset,
     t_now : (0 - ArgSpan)..ArgSpan]

InitLoopTime ==
    /\ variant \in Variants
    /\ loop_interval = BaseInterval
    /\ loop_offset = 0
    /\ consumers = Consumers
    /\ start_calls = 0
    /\ stop_calls = 0
    /\ end_time = 0
    /\ EngineInit
    /\ lt_in \in LoopTimeArgs
    /\ lt_out = NoResult

LoopTimeCall ==
    /\ lt_out = NoResult
    /\ lt_out' = IF loop_time_raises(lt_in.interval)
                 THEN [status |-> "ZeroDivisionError", value |-> 0]
                 ELSE [status |-> "returned",
                       value |-> loop_time(lt_in.interval, lt_in.offset,
                                           lt_in.t_now)]
    /\ UNCHANGED <<cfgVars, running, stopped, now, caller, nstarted, launcher,
                   srcVars, fanVars, qVars, wdVars, gather_exc, histVars,
                   obsVars, lt_in>>

\* ------------------------------------------------------ specification ----
Next ==
    \/ StartThread
    \/ StartReturn
    \/ Stop
    \/ Tick
    \/ \E t \in Threads : Launch(t)
    \/ \E t \in Threads : LauncherEnd(t)
    \/ \E t \in Threads : WatchdogWake(t)
    \/ \E t \in Threads : LoopGenerator(t)
    \/ \E t \in Threads : CheckDelta(t)
    \/ \E t \in Threads : SkipWake(t)
    \/ \E t \in Threads : EventWake(t)
    \/ \E t \in Threads : ProduceReturn(t)
    \/ \E t \in Threads : ProduceRaise(t)
    \/ \E t \in Threads : \E c \in Consumers : ConsumeReturn(t, c)
    \/ \E t \in Threads : \E c \in Consumers : ConsumeRaise(t, c)
    \/ \E t \in Threads : SchedulerGather(t)
    \/ \E t \in Threads : ConsumerGet(t)
    \/ \E t \in Threads : ConsumerGather(t)

Spec == Init /\ [][Next]_vars

SpecRestart == InitRestart /\ [][Next]_vars

SpecStop == InitStop /\ [][Next]_vars

SpecLoopTime == InitLoopTime /\ [][LoopTimeCall]_vars

\* The engine thread's loop runs every callback that is ready, timers
\* expire as the clock advances, and the caller thread finishes start().
\* Nothing obliges the caller to call start() or stop(), nor produce or a
\* consumer to ever return.
Fairness ==
    /\ WF_vars(Tick)
    /\ WF_vars(StartReturn)
    /\ \A t \in Threads :
         /\ WF_vars(Launch(t))
         /\ WF_vars(LauncherEnd(t))
         /\ WF_vars(WatchdogWake(t))
         /\ WF_vars(LoopGenerator(t))
         /\ WF_vars(CheckDelta(t))
         /\ WF_vars(SkipWake(t))
         /\ WF_vars(EventWake(t))
         /\ WF_vars(SchedulerGather(t))
         /\ WF_vars(ConsumerGet(t))
         /\ WF_vars(ConsumerGather(t))

FairSpec == Init /\ [][Next]_vars /\ Fairness


\* ================================================================ claims ==

\* ----------------------------------------------------------------- C7 ----
\* C7: for every positive interval, every offset with 0 <= offset < interval
\* and every t_now, loop_time returns t with t > t_now and
\* (t - offset) mod interval = 0.
C7_LoopTimeQuantized ==
    (/\ lt_out.status = "returned"
     /\ lt_in.interval > 0
     /\ 0 <= lt_in.offset
     /\ lt_in.offset < lt_in.interval)
    => /\ lt_out.value > lt_in.t_now
       /\ (lt_out.value - lt_in.offset) % lt_in.interval = 0

\* loop_time(3, 1, 7): t0 = 7 is not after t_now, so one interval is added.
C7_Witness ==
    /\ lt_in = [interval |-> 3, offset |-> 1, t_now |-> 7]
    /\ lt_out = [status |-> "returned", value |-> 10]


\* ----------------------------------------------------------------- C3 ----
\* C3: in the lock-step scheduler, whenever produce is invoked for an event
\* after the first, the tasks in cons_tasks are those spawned for the event
\* emitted just before it and every one of them has completed.
C3_ProducerAfterConsumers ==
    [][\A t \in Threads :
         (/\ variant = "AioConveyor"
          /\ Len(emitted'[t]) = Len(emitted[t]) + 1
          /\ Len(emitted[t]) >= 1)
         => /\ fan[t][1] = emitted[t][Len(emitted[t])]
            /\ \A c \in consumers : cons_tasks[t][c] = "done"]_vars

\* produce is in flight for the second event of a lock-step scheduler.
C3_Witness ==
    \E t \in Threads :
        /\ variant = "AioConveyor"
        /\ task[t] = "produce"
        /\ Len(emitted[t]) = 2
        /\ \A c \in consumers : cons_tasks[t][c] = "done"

\* ----------------------------------------------------------------- C4 ----
\* C4: in the queued pipeline, every item the producer stage put is first in
\* the queue and then dequeued, in the order of the puts: the items put are
\* the items got followed by the items still queued, and each event whose
\* produce call returned was put once with its payload, however long the
\* queue is.
C4_QueueFifoNoLoss ==
    \A t \in Threads :
        variant = "AioGenConveyor" =>
            /\ enqueued[t] = dequeued[t] \o queue[t]
            /\ Len(enqueued[t]) = loop_counter[t]
            /\ \A i \in 1..Len(enqueued[t]) :
                   enqueued[t][i] = <<emitted[t][i], payload_of(emitted[t][i])>>

\* The producer stage is two items ahead of a consumer stage that has got
\* items before.
C4_Witness ==
    \E t \in Threads :
        /\ variant = "AioGenConveyor"
        /\ Len(queue[t]) >= 2
        /\ Len(dequeued[t]) >= 1

\* ----------------------------------------------------------------- C6 ----
\* C6: the loop_counter values of the events one event source has emitted
\* are 0, 1, 2, ... in emission order, and a step that skips a loop event
\* emits nothing and leaves loop_counter as it was.
C6_SequenceNumbers ==
    /\ [](\A t \in Threads : \A i \in 1..Len(emitted[t]) :
              emitted[t][i].loop_counter = i - 1)
    /\ [][\A t \in Threads :
            skipped'[t] > skipped[t]
            => /\ emitted'[t] = emitted[t]
               /\ loop_counter'[t] = loop_counter[t]]_vars

\* A second event is emitted after loop events were skipped since the first.
C6_Witness ==
    \E t \in Threads :
        /\ task[t] = "produce"
        /\ Len(emitted[t]) >= 2
        /\ skipped[t] >= 1


\* ----------------------------------------------------------------- C1 ----
\* stop() has been called on an engine whose start() has returned and whose
\* thread still runs its loop, the watchdog's sleep ending within the clock.
C1_StoppedWhileRunning ==
    /\ stopped
    /\ caller = "idle"
    /\ \E t \in Threads :
           /\ LoopRuns(t)
           /\ watchdog[t] = "sleep"
           /\ wd_wake[t] <= end_time

\* C1: once stop() was called on a started engine, the first wake-up of the
\* watchdog raises instead of sleeping again, which ends launcher's gather,
\* and running becomes false, whatever produce and the consumers are doing.
C1_StopEndsEngine ==
    /\ [][\A t \in Threads :
            (/\ stopped
             /\ watchdog[t] = "sleep"
             /\ <<watchdog[t], wd_wake[t]>>' # <<watchdog[t], wd_wake[t]>>)
            => /\ watchdog'[t] = "raised"
               /\ gather_exc'[t] # "none"]_vars
    /\ (C1_StoppedWhileRunning ~> ~running)

\* The engine ended on the watchdog's exception while a produce call and a
\* consumer fan-out were both in flight.
C1_Witness ==
    \E t \in Threads :
        /\ stopped
        /\ launcher[t] = "done"
        /\ log[t] = "watchdog"
        /\ ~running
        /\ task[t] = "produce"
        /\ \E c \in consumers : cons_tasks[t][c] = "pending"


\* The configurations the docstrings recommend: a positive interval and an
\* offset inside it.
RecommendedConfig ==
    /\ loop_interval > 0
    /\ 0 <= loop_offset
    /\ loop_offset < loop_interval

\* ----------------------------------------------------------------- C2 ----
\* C2: in every state where start() has returned and the launcher of the
\* engine thread has ended, running is false.  (Stated for engines of a
\* recommended configuration on which stop() was never called.)
C2_RunningFalseAfterEnd ==
    (/\ RecommendedConfig
     /\ ~stopped
     /\ caller = "idle"
     /\ \E t \in Threads : launcher[t] = "done")
    => ~running

\* ----------------------------------------------------------------- C5 ----
\* C5: once produce has raised and the engine has ended (start() having
\* returned), running is false, launcher's log.error reported the producer's
\* exception, and produce was called for no later event.  (Stated for
\* engines of a recommended configuration.)
C5_ProducerFailureEndsEngine ==
    \A t \in Threads :
        (/\ RecommendedConfig
         /\ task[t] = "produce_raised"
         /\ launcher[t] = "done"
         /\ caller = "idle")
        => /\ ~running
           /\ log[t] = "produce"
           /\ emitted[t][Len(emitted[t])] = event[t]

\* ----------------------------------------------------------------- C8 ----
\* C8: in the state where running has become false after a stop() that the
\* watchdog observed (start() having returned), every pipeline task
\* (scheduler, or producer and consumer, and the consumer tasks) has
\* terminated; none is left pending.  (Stated for engines of a recommended
\* configuration that have emitted an event.)
C8_ShutdownCancelsTasks ==
    \A t \in Threads :
        (/\ RecommendedConfig
         /\ Len(emitted[t]) >= 1
         /\ stopped
         /\ caller = "idle"
         /\ ~running
         /\ launcher[t] = "done"
         /\ log[t] = "watchdog")
        => /\ task[t] \in {"cancelled", "loop_time_raised", "produce_raised",
                           "consume_raised"}
           /\ consumer[t] \in {"none", "cancelled", "raised"}
           /\ \A c \in consumers : cons_tasks[t][c] # "pending"

\* ----------------------------------------------------------------- C9 ----
\* C9: the event_time values of the events one event source has emitted are
\* strictly increasing in emission order.
C9_EventTimesIncrease ==
    \A t \in Threads : \A i, j \in 1..Len(emitted[t]) :
        i < j => emitted[t][i].event_time < emitted[t][j].event_time

\* With a loop_offset that is not negative the event times do increase.
C9_IncreaseForNonNegativeOffset ==
    loop_offset >= 0 => C9_EventTimesIncrease

\* ---------------------------------------------------------------- C10 ----
\* C10: at most one engine thread of the instance is active at any time.
C10_OneEngineThread ==
    Cardinality({t \in Threads : launcher[t] \in {"created", "gather"}}) <= 1

\* ---------------------------------------------------------------- C11 ----
\* C11: stop() never resets self.stopped, and a stop() call made when the
\* flag is already set changes nothing but the count of calls: stopped,
\* running and the whole state of the engine are what they were, so what the
\* engine does afterwards is what it does after one call.
C11_StopIdempotent ==
    /\ [][stopped => stopped']_vars
    /\ [][(nstopped' = nstopped + 1 /\ nstopped >= 1)
          => /\ stopped /\ stopped'
             /\ UNCHANGED <<cfgVars, running, now, caller, nstarted, launcher,
                            srcVars, fanVars, qVars, wdVars, gather_exc,
                            histVars, uncaught, calls, round_end,
                            ltVars>>]_vars

\* stop() was called twice on an engine that has emitted an event, and the
\* engine ended on the watchdog's exception.
C11_Witness ==
    \E t \in Threads :
        /\ nstopped = 2
        /\ stopped
        /\ Len(emitted[t]) >= 1
        /\ launcher[t] = "done"
        /\ gather_exc[t] = "watchdog"
        /\ ~running

\* ---------------------------------------------------------------- C12 ----
\* C12: the constructor rejects a loop_interval that is not positive, so no
\* engine with such an interval is ever started and computes a loop time.
C12_IntervalRejected ==
    \A t \in Threads :
        task[t] \in {"loop_time", "loop_time_raised"} => loop_interval > 0

\* ---------------------------------------------------------------- C13 ----
\* C13 as stated: in the queued pipeline, once produce has raised and the
\* engine has ended, the consumer stage (unless a consumer of its own failed)
\* is waiting on queue.get for input.  (Stated for engines of a recommended
\* configuration whose start() has returned.)
C13_ConsumerLeftWaiting ==
    \A t \in Threads :
        (/\ RecommendedConfig
         /\ caller = "idle"
         /\ variant = "AioGenConveyor"
         /\ task[t] = "produce_raised"
         /\ launcher[t] = "done"
         /\ consumer[t] # "raised")
        => consumer[t] = "get"

\* C13 as amended: in the queued pipeline a failure of produce changes
\* nothing of the consumer stage: consumer_loop is not ended by it (it ends
\* only on a failure of one of its own consumer tasks), and once launcher has
\* returned it is left for good where it was, at queue.get or inside the
\* join of a fan-out, and what is still queued is never got.
C13_ConsumerLeftPending ==
    /\ [](\A t \in Threads :
            (variant = "AioGenConveyor" /\ task[t] = "produce_raised")
            => /\ consumer[t] \in {"get", "gather", "raised"}
               /\ consumer[t] = "raised"
                  => \E c \in consumers : cons_tasks[t][c] = "raised")
    /\ [][\A t \in Threads :
            (/\ variant = "AioGenConveyor"
             /\ task[t] = "produce"
             /\ task'[t] = "produce_raised")
            => /\ consumer'[t] = consumer[t]
               /\ cons_tasks'[t] = cons_tasks[t]
               /\ queue'[t] = queue[t]]_vars
    /\ [][\A t \in Threads :
            (variant = "AioGenConveyor" /\ launcher[t] = "done")
            => /\ consumer'[t] = consumer[t]
               /\ cons_tasks'[t] = cons_tasks[t]
               /\ queue'[t] = queue[t]
               /\ dequeued'[t] = dequeued[t]
               /\ calls'[t] = calls[t]]_vars

\* The engine ended on the producer's failure while the consumer stage was
\* inside a fan-out with a consumer task pending and an item still queued.
C13_Witness ==
    \E t \in Threads :
        /\ variant = "AioGenConveyor"
        /\ task[t] = "produce_raised"
        /\ launcher[t] = "done"
        /\ log[t] = "produce"
        /\ consumer[t] = "gather"
        /\ \E c \in consumers : cons_tasks[t][c] = "pending"
        /\ queue[t] # <<>>

\* ---------------------------------------------------------------- C14 ----
\* C14: when the engine ended only because of stop() (the watchdog's
\* exception is what launcher's gather raised, and neither produce nor a
\* consumer has failed), launcher did not take its error branch and no
\* exception left the engine thread.  (Stated for engines of a recommended
\* configuration whose start() has returned.)
C14_StopIsNoFault ==
    \A t \in Threads :
        (/\ RecommendedConfig
         /\ caller = "idle"
         /\ stopped
         /\ launcher[t] = "done"
         /\ gather_exc[t] = "watchdog"
         /\ task[t] \notin {"loop_time_raised", "produce_raised",
                            "consume_raised"}
         /\ consumer[t] # "raised"
         /\ \A c \in consumers : cons_tasks[t][c] # "raised")
        => /\ log[t] = "none"
           /\ uncaught[t] = "none"

\* ---------------------------------------------------------------- C15 ----
\* A consumer task of the current fan-out has raised.
C15_ConsumerFailed(t) ==
    \E c \in consumers : cons_tasks[t][c] = "raised"

\* What follows a consumer's failure short of the running flag: the round is
\* not completed (the lock-step loop_counter stays at the failed event's, the
\* consumer stage never returns to queue.get) and the failed fan-out is the
\* last invocation of every consumer.
C15_RoundNotCompleted ==
    \A t \in Threads :
        C15_ConsumerFailed(t)
        => /\ variant = "AioConveyor"
              => /\ task[t] \in {"gather", "consume_raised"}
                 /\ loop_counter[t] = fan[t][1].loop_counter
           /\ variant = "AioGenConveyor"
              => consumer[t] \in {"gather", "raised"}
           /\ \A c \in consumers :
                  calls[t][c][Len(calls[t][c])] = fan[t]

\* C15: once a consumer task of a fan-out has raised and the engine has
\* ended (start() having returned), the round was not completed, no later
\* event was handed to any consumer, running is false and no new engine
\* thread was started for the instance.  (Stated for engines of a
\* recommended configuration.)
C15_ConsumerFailureEndsEngine ==
    \A t \in Threads :
        (/\ RecommendedConfig
         /\ C15_ConsumerFailed(t)
         /\ launcher[t] = "done"
         /\ caller = "idle")
        => /\ C15_RoundNotCompleted
           /\ ~running
           /\ nstarted = 1

\* ---------------------------------------------------------------- C16 ----
\* C16 as stated: whenever the event source re-checks a loop time t_event
\* with t_event <= time(), t_event = time() included, it skips the event:
\* nothing is emitted for it, the task backs off for SkewSleep and
\* loop_counter is unchanged.  (Stated for engines of a recommended
\* configuration.)
C16_SkewRetryAtOrBeforeNow ==
    [][\A t \in Threads :
         (/\ RecommendedConfig
          /\ task[t] = "delta"
          /\ task'[t] # "delta"
          /\ t_event[t] <= now)
         => /\ task'[t] = "skip_sleep"
            /\ wake'[t] = now + SkewSleep
            /\ emitted'[t] = emitted[t]
            /\ loop_counter'[t] = loop_counter[t]]_vars

\* C16 as amended: the re-check skips the event exactly when t_event <
\* time(): nothing is emitted, the task backs off for SkewSleep, then
\* computes a new loop time, and loop_counter is unchanged throughout.  With
\* t_event = time() (or later) the event is built with the current
\* loop_counter, and once time() reaches t_event it is emitted and produce is
\* invoked for it.
C16_SkewRetryBeforeNow ==
    /\ [][\A t \in Threads :
            (task[t] = "delta" /\ task'[t] # "delta")
            => IF t_event[t] < now
               THEN /\ task'[t] = "skip_sleep"
                    /\ wake'[t] = now + SkewSleep
                    /\ emitted'[t] = emitted[t]
                    /\ event'[t] = event[t]
                    /\ loop_counter'[t] = loop_counter[t]
               ELSE /\ task'[t] = "event_sleep"
                    /\ wake'[t] = t_event[t]
                    /\ event'[t] = Event(t_event[t], loop_counter[t])]_vars
    /\ [][\A t \in Threads :
            (task[t] = "skip_sleep" /\ task'[t] # "skip_sleep")
            => /\ now >= wake[t]
               /\ task'[t] = "loop_time"
               /\ emitted'[t] = emitted[t]
               /\ loop_counter'[t] = loop_counter[t]]_vars
    /\ [][\A t \in Threads :
            (task[t] = "event_sleep" /\ task'[t] # "event_sleep")
            => /\ now >= event[t].event_time
               /\ task'[t] = "produce"
               /\ emitted'[t] = Append(emitted[t], event[t])]_vars

\* After a first event the source has just skipped a loop time that lies in
\* the past, its loop_counter still the one of the next event to emit.
C16_Witness ==
    \E t \in Threads :
        /\ RecommendedConfig
        /\ task[t] = "skip_sleep"
        /\ t_event[t] < now
        /\ wake[t] = now + SkewSleep
        /\ skipped[t] >= 1
        /\ Len(emitted[t]) >= 1
        /\ loop_counter[t] = Len(emitted[t])

\* ---------------------------------------------------------------- C17 ----
\* C17: in the queued pipeline's consumer stage every consumer has been
\* handed exactly the items dequeued so far, and whenever an item after the
\* first is dequeued, cons_tasks are the tasks of the item dequeued just
\* before it and every one of them has completed; the producer stage is not
\* held back by a fan-out (see the witness).
C17_ConsumerStageBarrier ==
    /\ [](\A t \in Threads :
            variant = "AioGenConveyor"
            => \A c \in consumers : calls[t][c] = dequeued[t])
    /\ [][\A t \in Threads :
            (/\ variant = "AioGenConveyor"
             /\ Len(dequeued'[t]) = Len(dequeued[t]) + 1
             /\ Len(dequeued[t]) >= 1)
            => /\ fan[t] = dequeued[t][Len(dequeued[t])]
               /\ \A c \in consumers : cons_tasks[t][c] = "done"]_vars

\* The second item's fan-out is under way, a consumer task of it pending,
\* while the producer stage is in the produce call of the third event, whose
\* item it is free to put.
C17_Witness ==
    \E t \in Threads :
        /\ variant = "AioGenConveyor"
        /\ consumer[t] = "gather"
        /\ Len(dequeued[t]) = 2
        /\ \E c \in consumers : cons_tasks[t][c] = "pending"
        /\ Len(emitted[t]) = 3
        /\ task[t] = "produce"

\* ---------------------------------------------------------------- C18 ----
\* The fan-outs an engine thread has started: one per returned produce call
\* in the lock-step scheduler, one per dequeued item in the queued pipeline.
C18_FanOutsStarted(t) ==
    IF variant = "AioConveyor"
    THEN loop_counter[t]
         + (IF task[t] \in {"gather", "consume_raised"} THEN 1 ELSE 0)
    ELSE Len(dequeued[t])

\* C18: every registered consumer has been invoked exactly once per fan-out
\* started, the i-th time with the i-th emitted event and the payload
\* produce returned for that event; so for each event all consumers got the
\* same pair, each once.
C18_FanOutSameEventPayload ==
    \A t \in Threads : \A c \in consumers :
        /\ Len(calls[t][c]) = C18_FanOutsStarted(t)
        /\ \A i \in 1..Len(calls[t][c]) :
               /\ calls[t][c][i][1] = emitted[t][i]
               /\ calls[t][c][i][2] = payload_of(emitted[t][i])
               /\ calls[t][c][i][1].loop_counter = i - 1

\* The queued pipeline has fanned out its second item to both consumers
\* while the payload of a third event is already queued.
C18_Witness ==
    \E t \in Threads :
        /\ variant = "AioGenConveyor"
        /\ Cardinality(consumers) = 2
        /\ \A c \in consumers : Len(calls[t][c]) = 2
        /\ Len(enqueued[t]) = 3
        /\ consumer[t] = "gather"

\* ---------------------------------------------------------------- C19 ----
\* C19: for every positive interval, every offset (negative ones and ones
\* beyond the interval included) and every t_now, loop_time returns t with
\* t > t_now and (t - offset) mod interval = 0.
C19_LoopTimeAnyOffset ==
    (lt_out.status = "returned" /\ lt_in.interval > 0)
    => /\ lt_out.value > lt_in.t_now
       /\ (lt_out.value - lt_in.offset) % lt_in.interval = 0

\* The part of C19 that holds: for an offset that is not negative the result
\* is after t_now, and for every offset it is congruent to the offset.
C19_HoldsForNonNegativeOffset ==
    (lt_out.status = "returned" /\ lt_in.interval > 0)
    => /\ lt_in.offset >= 0 => lt_out.value > lt_in.t_now
       /\ (lt_out.value - lt_in.offset) % lt_in.interval = 0

\* ---------------------------------------------------------------- C20 ----
\* The smallest quantized instant k * interval + off strictly after tau.
C20_NextInstant(interval, off, tau) ==
    tau + interval - ((tau - off) % interval)

\* An emission step of the lock-step scheduler after a round that finished
\* with one or more quantized instants after its event already passed: the
\* new event's event_time is the smallest quantized instant strictly after
\* the time the round finished, and its loop_counter the previous one plus 1.
C20_EmitsNextInstant(t) ==
    (/\ variant = "AioConveyor"
     /\ Len(emitted[t]) >= 1
     /\ Len(emitted'[t]) = Len(emitted[t]) + 1
     /\ C20_NextInstant(loop_interval, loop_offset,
                        emitted[t][Len(emitted[t])].event_time)
        < round_end[t])
    => LET prev == emitted[t][Len(emitted[t])]
           next == emitted'[t][Len(emitted'[t])]
       IN  /\ next.event_time
              = C20_NextInstant(loop_interval, loop_offset, round_end[t])
           /\ next.loop_counter = prev.loop_counter + 1

\* C20: the lock-step scheduler never catches up on missed instants: every
\* event emitted after a round that overran one or more quantized instants
\* has the smallest quantized instant strictly after the end of the round as
\* its event_time (the missed instants get no event) and the previous
\* loop_counter plus 1.
C20_NoCatchUp ==
    [][\A t \in Threads : C20_EmitsNextInstant(t)]_vars

\* What holds of C20 with a loop_offset that is not negative: the event
\* emitted after a round is for a quantized instant strictly after the end of
\* the round, though not always the smallest one, with the next loop_counter.
C20_LaterInstantForNonNegativeOffset ==
    [][\A t \in Threads :
         (/\ loop_offset >= 0
          /\ variant = "AioConveyor"
          /\ Len(emitted[t]) >= 1
          /\ Len(emitted'[t]) = Len(emitted[t]) + 1)
         => LET prev == emitted[t][Len(emitted[t])]
                next == emitted'[t][Len(emitted'[t])]
            IN  /\ next.event_time > round_end[t]
                /\ (next.event_time - loop_offset) % loop_interval = 0
                /\ next.loop_counter = prev.loop_counter + 1]_vars

====
